---- MODULE Spec2Model ----
(***************************************************************************)
(* Model of load.py, the Elasticsearch bulk loader of ppl-navigo/esload.    *)
(*                                                                          *)
(* Strings are sequences of one-character strings, so that strip, the       *)
(* membership test and str.replace are computed character by character.     *)
(* Python values are tagged records [t, v]: t is "str", "none" or "int".    *)
(* Dictionaries are functions whose DOMAIN is the set of keys present.      *)
(***************************************************************************)
EXTENDS Integers, Sequences, FiniteSets, TLC

VARIABLES
    \* ---- the script (load.py top level) ----
    pc,             \* position of the script
    attempt,        \* loop variable of the connection retry loop
    issued,         \* the HTTP requests sent so far, in order
    index,          \* the engine's index peraturan_indonesia
    items,          \* the loaded collection of records
    i,              \* loop variable of the bulk loop (0-based offset)
    success_count,  \* running number of documents reported indexed
    last,           \* outcome of the request made last
    clean,          \* every bulk request so far came back 200, errors unset
    batches,        \* the slices taken from items so far
    exit_code,      \* process exit status, -1 while running
    \* ---- one call of preprocess_document on the object heap ----
    npc,            \* "call" before the call, "returned" after
    doc,            \* the argument: top-level dict of the input record
    store,          \* heap of metadata dicts, by address
    doc0,           \* the input record's contents when the call started
    processed_doc   \* the returned top-level dict

vars == <<pc, attempt, issued, index, items, i, success_count, last, clean, batches,
          exit_code, npc, doc, store, doc0, processed_doc>>

scriptVars == <<pc, attempt, issued, index, items, i, success_count, last, clean,
                batches, exit_code>>
normVars == <<npc, doc, store, doc0, processed_doc>>

(***************************************************************************)
(* Bounds of the model.                                                     *)
(***************************************************************************)
MaxParts == 2        \* pieces concatenated into a free-form date string
MaxDocs == 120       \* largest collection loaded
Slack == 1           \* collection sizes lie within Slack of a batch boundary
MaxRespFail == 4     \* failing entries of one kind in a bulk response

(***************************************************************************)
(* Constants of the script.                                                 *)
(***************************************************************************)
max_retries == 5
batch_size == 50

(***************************************************************************)
(* Python values.                                                           *)
(***************************************************************************)
Str(s) == [t |-> "str", v |-> s]
None == [t |-> "none", v |-> <<>>]
IntVal(n) == [t |-> "int", v |-> <<n>>]
Int7 == IntVal(7)
IsStr(x) == x.t = "str"

(***************************************************************************)
(* Month names, as character sequences.                                     *)
(***************************************************************************)
Januari == <<"J","a","n","u","a","r","i">>
Februari == <<"F","e","b","r","u","a","r","i">>
Maret == <<"M","a","r","e","t">>
April == <<"A","p","r","i","l">>
Mei == <<"M","e","i">>
Juni == <<"J","u","n","i">>
Juli == <<"J","u","l","i">>
Agustus == <<"A","g","u","s","t","u","s">>
September == <<"S","e","p","t","e","m","b","e","r">>
Oktober == <<"O","k","t","o","b","e","r">>
November == <<"N","o","v","e","m","b","e","r">>
Desember == <<"D","e","s","e","m","b","e","r">>
January == <<"J","a","n","u","a","r","y">>
February == <<"F","e","b","r","u","a","r","y">>
March == <<"M","a","r","c","h">>
May == <<"M","a","y">>
June == <<"J","u","n","e">>
July == <<"J","u","l","y">>
August == <<"A","u","g","u","s","t">>
October == <<"O","c","t","o","b","e","r">>
December == <<"D","e","c","e","m","b","e","r">>

\* the dict id_month_mapping, in insertion order: <<id_month, en_month>>
id_month_mapping ==
    << <<Januari, January>>, <<Februari, February>>, <<Maret, March>>,
       <<April, April>>, <<Mei, May>>, <<Juni, June>>, <<Juli, July>>,
       <<Agustus, August>>, <<September, September>>, <<Oktober, October>>,
       <<November, November>>, <<Desember, December>> >>

date_fields == <<"Tanggal Penetapan", "Tanggal Pengundangan", "Tanggal Berlaku">>

(***************************************************************************)
(* str methods.                                                             *)
(***************************************************************************)
Whitespace == {" ", "\t", "\n"}

RECURSIVE LStrip(_)
LStrip(s) ==
    IF s # <<>> /\ Head(s) \in Whitespace THEN LStrip(Tail(s)) ELSE s

RECURSIVE RStrip(_)
RStrip(s) ==
    IF s # <<>> /\ s[Len(s)] \in Whitespace
    THEN RStrip(SubSeq(s, 1, Len(s) - 1)) ELSE s

\* str.strip()
Strip(s) == RStrip(LStrip(s))

\* s.startswith(sub)
StartsWith(s, sub) ==
    Len(sub) <= Len(s) /\ SubSeq(s, 1, Len(sub)) = sub

\* sub in s
Contains(s, sub) ==
    \E k \in 1..(Len(s) - Len(sub) + 1) : SubSeq(s, k, k + Len(sub) - 1) = sub

\* mutant: only the leftmost occurrence is replaced
ReplaceFirst(s, old, new) ==
    IF Contains(s, old)
    THEN LET k == CHOOSE p \in 1..(Len(s) - Len(old) + 1) :
                     /\ SubSeq(s, p, p + Len(old) - 1) = old
                     /\ \A q \in 1..(p - 1) : SubSeq(s, q, q + Len(old) - 1) # old
         IN  SubSeq(s, 1, k - 1) \o new \o SubSeq(s, k + Len(old), Len(s))
    ELSE s

\* s.replace(old, new) for non-empty old: leftmost occurrences, not overlapping
RECURSIVE Replace(_, _, _)
Replace(s, old, new) ==
    IF s = <<>> THEN <<>>
    ELSE IF StartsWith(s, old)
         THEN new \o Replace(SubSeq(s, Len(old) + 1, Len(s)), old, new)
         ELSE <<Head(s)>> \o Replace(Tail(s), old, new)

(***************************************************************************)
(* preprocess_document.                                                     *)
(***************************************************************************)
\* the loop over id_month_mapping.items(), from entry k on
RECURSIVE ReplaceMonths(_, _)
ReplaceMonths(date_str, k) ==
    IF k > Len(id_month_mapping) THEN date_str
    ELSE LET id_month == id_month_mapping[k][1]
             en_month == id_month_mapping[k][2]
         IN  IF Contains(date_str, id_month)
             THEN ReplaceMonths(Replace(date_str, id_month, en_month), k + 1)
             ELSE ReplaceMonths(date_str, k + 1)

\* mutant: the key is left in place
PopNothing(m, key) == m

\* dict.pop(key, None)
Pop(m, key) == [k \in DOMAIN m \ {key} |-> m[k]]

\* dict[key] = value
Put(m, key, value) == [k \in DOMAIN m \cup {key} |-> IF k = key THEN value ELSE m[k]]

\* the body of the loop over date_fields, for one date_field, on the metadata dict
NormalizeField(metadata, date_field) ==
    IF date_field \notin DOMAIN metadata THEN metadata
    ELSE LET date_value == metadata[date_field]
         IN  IF date_value = None \/ ~IsStr(date_value) \/ date_value = Str(<<>>)
             THEN Pop(metadata, date_field)
             ELSE Put(metadata, date_field,
                      Str(ReplaceMonths(Strip(date_value.v), 1)))

\* the loop over date_fields, from field k on
RECURSIVE NormalizeFrom(_, _)
NormalizeFrom(metadata, k) ==
    IF k > Len(date_fields) THEN metadata
    ELSE NormalizeFrom(NormalizeField(metadata, date_fields[k]), k + 1)

NormalizeMetadata(metadata) == NormalizeFrom(metadata, 1)

\* a reference to the metadata dict at address a
Ref(a) == [t |-> "ref", v |-> <<a>>]

\* the contents of a record: its top-level dict with the metadata dict read
\* through the reference
View(d, st) ==
    [k \in DOMAIN d |->
        IF d[k].t = "ref" THEN [t |-> "dict", v |-> st[d[k].v[1]]] ELSE d[k]]

\* def preprocess_document(doc): doc.copy() copies the top-level dict only, so
\* processed_doc["metadata"] is the very dict doc["metadata"] refers to
PreprocessDocument ==
    /\ npc \in {"call", "call again"}
    /\ processed_doc' = doc
    /\ store' = IF "metadata" \in DOMAIN doc
                THEN [store EXCEPT ![doc["metadata"].v[1]] = NormalizeMetadata(@)]
                ELSE store
    /\ npc' = IF npc = "call" THEN "returned" ELSE "returned again"
    /\ UNCHANGED <<doc, doc0>>
    /\ UNCHANGED scriptVars

\* preprocess_document is called on the record it returned: doc0 is that
\* record as it is before the second call
Reapply ==
    /\ npc = "returned"
    /\ doc' = processed_doc
    /\ doc0' = View(processed_doc, store)
    /\ npc' = "call again"
    /\ UNCHANGED <<store, processed_doc>>
    /\ UNCHANGED scriptVars

(***************************************************************************)
(* The records preprocess_document is applied to.                           *)
(***************************************************************************)
Sp == <<" ">>
Pieces ==
    { id_month_mapping[k][1] : k \in 1..Len(id_month_mapping) }
    \cup { Sp, <<"1","7">>, <<"1","9","4","5">>, <<"x">>,
           <<"1","9","4","5","-","0","8","-","1","7">> }

RECURSIVE FreeStrings(_)
FreeStrings(n) ==
    IF n = 0 THEN { <<>> }
    ELSE LET shorter == FreeStrings(n - 1)
         IN  shorter \cup { s \o p : s \in shorter, p \in Pieces }

\* day month year in the locale's layout, bare or padded with whitespace
LocaleDates ==
    { pad \o day \o Sp \o id_month_mapping[k][1] \o Sp \o <<"1","9","4","5">> \o pad :
        pad \in { <<>>, Sp }, day \in { <<"7">>, <<"1","7">> },
        k \in 1..Len(id_month_mapping) }

DateValues ==
    { None, Int7 } \cup { Str(s) : s \in FreeStrings(MaxParts) \cup LocaleDates }

Absent == [t |-> "absent", v |-> <<>>]
OtherDateValues == { Absent, None, Str(Sp \o <<"2">> \o Sp \o Mei \o Sp \o <<"2","0","0","1">>) }

\* a metadata dict from the values of its three date fields (Absent: no key)
MetadataOf(vals) ==
    LET present == { k \in 1..Len(date_fields) : vals[k] # Absent }
    IN  [f \in { date_fields[k] : k \in present } \cup {"Nomor"} |->
            IF f = "Nomor" THEN Str(<<"5">>)
            ELSE vals[CHOOSE k \in present : date_fields[k] = f]]

NormInputs ==
    { <<a, b, c>> : a \in DateValues \cup {Absent}, b \in OtherDateValues, c \in {Absent} }
    \cup { <<b, a, c>> : a \in DateValues, b \in {Absent}, c \in OtherDateValues }
    \cup { <<b, c, a>> : a \in DateValues, b \in OtherDateValues, c \in {None} }

\* the script is not running
IdleScript ==
    /\ pc = "idle" /\ attempt = 0 /\ issued = <<>> /\ index = <<>>
    /\ items = <<>> /\ i = 0 /\ success_count = 0 /\ last = <<>>
    /\ clean = TRUE /\ batches = <<>> /\ exit_code = -1

NormInit ==
    /\ IdleScript
    /\ npc = "call"
    /\ processed_doc = <<>>
    /\ \/ \E vals \in NormInputs :
             /\ doc = [k \in {"metadata", "abstrak"} |->
                          IF k = "metadata" THEN Ref(1) ELSE Str(<<"a">>)]
             /\ store = <<MetadataOf(vals)>>
       \/ /\ doc = [k \in {"abstrak"} |-> Str(<<"a">>)]
          /\ store = <<>>
    /\ doc0 = View(doc, store)

NormNext == PreprocessDocument \/ Reapply

SpecNorm == NormInit /\ [][NormNext]_vars

(***************************************************************************)
(* The script: requests, the engine, the loaded collection.                 *)
(***************************************************************************)
Request(req, docs) == [req |-> req, docs |-> docs]

NoResponse == [req |-> "", kind |-> "none", status |-> 0, errors |-> FALSE,
               size |-> 0, result_items |-> <<>>, failures |-> 0, reported |-> <<>>,
               bulk_data |-> <<>>, error_types |-> <<>>]

\* a response to req: kind is "response" (status is the HTTP status),
\* "badbody" (a response whose body cannot be used: json() or a key lookup
\* raises), "exception" (the request raised) or "keyerror" (the payload could
\* not be built and no request was sent)
Outcome(req, kind, status) ==
    [NoResponse EXCEPT !.req = req, !.kind = kind, !.status = status]

\* the engine's index: absent, or present with a schema and documents
\* (prior: its documents from before the run; log: the documents written by
\* index actions since it was created, in the order they were written)
NoIndex == [exists |-> FALSE, schema |-> "", prior |-> {}, log |-> <<>>]
InitialIndexes ==
    { NoIndex,
      [exists |-> TRUE, schema |-> "other", prior |-> {"old"}, log |-> <<>>],
      [exists |-> TRUE, schema |-> "es_mapping", prior |-> {"old"}, log |-> <<>>] }

\* the engine on DELETE /{index}: 200 removes an index that exists, 404 reports
\* one that does not, 500 is a failure that changes nothing
DeleteStatuses(idx) == IF idx.exists THEN {200, 500} ELSE {404, 500}
EngineDelete(idx, status) == IF status = 200 THEN NoIndex ELSE idx

\* the engine on PUT /{index} with json=es_mapping: 200 creates an index that
\* does not exist, empty and with the schema sent; 400 refuses one that exists;
\* 500 is a failure that changes nothing
CreateStatuses(idx) == IF idx.exists THEN {400, 500} ELSE {200, 500}
EngineCreate(idx, status) ==
    IF status = 200
    THEN [exists |-> TRUE, schema |-> "es_mapping", prior |-> {}, log |-> <<>>]
    ELSE idx

HeadStatuses == {200, 404, 503}
ProbeStatuses == {200, 401, 503}
BulkStatuses == {200, 413, 503}
SearchStatuses == {200, 404, 503}

\* exit(code)
Exit(code) == pc' = "exited" /\ exit_code' = code

(***************************************************************************)
(* Connection retry loop: for attempt in range(max_retries) ... else.       *)
(***************************************************************************)
\* mutant: one attempt too many before giving up
RetryOrGiveUpOffByOne ==
    IF attempt < max_retries
    THEN attempt' = attempt + 1 /\ UNCHANGED <<pc, exit_code>>
    ELSE Exit(1) /\ UNCHANGED attempt

\* the iteration did not break: sleep and go on, or leave the loop by its else
RetryOrGiveUp ==
    IF attempt < max_retries - 1
    THEN attempt' = attempt + 1 /\ UNCHANGED <<pc, exit_code>>
    ELSE Exit(1) /\ UNCHANGED attempt

Probe ==
    /\ pc = "connect"
    /\ issued' = Append(issued, Request("GET /", 0))
    /\ \/ \E status \in ProbeStatuses :
             /\ last' = Outcome("GET /", "response", status)
             /\ IF status = 200
                THEN pc' = "load_data" /\ UNCHANGED <<attempt, exit_code>>
                ELSE RetryOrGiveUp
       \/ \E kind \in {"badbody", "exception"} :
             /\ last' = Outcome("GET /", kind, IF kind = "badbody" THEN 200 ELSE 0)
             /\ RetryOrGiveUp
    /\ UNCHANGED <<index, items, i, success_count, clean, batches>>
    /\ UNCHANGED normVars

(***************************************************************************)
(* items = pickle.load(f)                                                   *)
(***************************************************************************)
NearBoundary(n) ==
    n % batch_size <= Slack \/ n % batch_size >= batch_size - Slack

DocCounts == { n \in 0..MaxDocs : NearBoundary(n) } \cup {MaxDocs}

Dict(m) == [t |-> "dict", v |-> m]

\* record k of the collection; record noMeta has no metadata at all
ItemAt(k, noMeta) ==
    IF k = noMeta THEN [f \in {"abstrak"} |-> Str(<<"a">>)]
    ELSE [f \in {"metadata"} |->
            Dict(IF k % batch_size = 1
                 THEN [g \in {"Nomor", "Tanggal Berlaku", "Tanggal Penetapan"} |->
                         CASE g = "Nomor" -> IntVal(k)
                           [] g = "Tanggal Berlaku" ->
                                Str(Sp \o <<"7">> \o Sp \o Mei \o Sp \o <<"2","0","0","1">>)
                           [] OTHER -> None]
                 ELSE [g \in {"Nomor"} |-> IntVal(k)])]

\* where the record without metadata lies, if there is one (0: nowhere): at
\* the start of a batch or at the end of the first
NoMetadataAt == {0, batch_size} \cup { q \in 1..MaxDocs : q % batch_size = 1 }

Collections ==
    { [k \in 1..n |-> ItemAt(k, noMeta)] : n \in DocCounts, noMeta \in NoMetadataAt }

LoadData ==
    /\ pc = "load_data"
    /\ \/ \E c \in Collections : items' = c /\ pc' = "head" /\ UNCHANGED exit_code
       \/ Exit(1) /\ UNCHANGED items     \* open or pickle.load raises
    /\ UNCHANGED <<attempt, issued, index, i, success_count, last, clean, batches>>
    /\ UNCHANGED normVars

(***************************************************************************)
(* Index provisioning.                                                      *)
(***************************************************************************)
HeadIndex ==
    /\ pc = "head"
    /\ issued' = Append(issued, Request("HEAD /index", 0))
    /\ \/ \E status \in HeadStatuses :
             /\ last' = Outcome("HEAD /index", "response", status)
             /\ pc' = IF status = 200 THEN "delete" ELSE "create"
             /\ UNCHANGED exit_code
       \/ /\ last' = Outcome("HEAD /index", "exception", 0)
          /\ Exit(1)
    /\ UNCHANGED <<attempt, index, items, i, success_count, clean, batches>>
    /\ UNCHANGED normVars

\* mutant: any delete response is tolerated
DeleteToleratedAlways(status) == status \in {200, 404, 500}

\* whether the script goes on after the delete response
DeleteTolerated(status) == status \in {200, 404}

DeleteIndex ==
    /\ pc = "delete"
    /\ issued' = Append(issued, Request("DELETE /index", 0))
    /\ \/ \E status \in DeleteStatuses(index) :
             /\ last' = Outcome("DELETE /index", "response", status)
             /\ index' = EngineDelete(index, status)
             /\ IF DeleteTolerated(status)
                THEN pc' = "create" /\ UNCHANGED exit_code
                ELSE Exit(1)
       \/ \E done \in BOOLEAN :           \* the request raised, served or not
             /\ last' = Outcome("DELETE /index", "exception", 0)
             /\ index' = IF done THEN EngineDelete(index, 200) ELSE index
             /\ Exit(1)
    /\ UNCHANGED <<attempt, items, i, success_count, clean, batches>>
    /\ UNCHANGED normVars

\* mutant: "already exists" is taken for a success
CreateSucceededOrExists(status) == status \in {200, 400}

\* whether the script goes on after the create response
CreateSucceeded(status) == status = 200

CreateIndex ==
    /\ pc = "create"
    /\ issued' = Append(issued, Request("PUT /index", 0))
    /\ \/ \E status \in CreateStatuses(index) :
             /\ last' = Outcome("PUT /index", "response", status)
             /\ index' = EngineCreate(index, status)
             /\ IF CreateSucceeded(status)
                THEN pc' = "bulk" /\ UNCHANGED exit_code
                ELSE Exit(1)
       \/ \E done \in BOOLEAN :
             /\ last' = Outcome("PUT /index", "exception", 0)
             /\ index' = IF done /\ ~index.exists THEN EngineCreate(index, 200) ELSE index
             /\ Exit(1)
    /\ i' = 0
    /\ success_count' = 0
    /\ UNCHANGED <<attempt, items, clean, batches>>
    /\ UNCHANGED normVars

(***************************************************************************)
(* prepare_bulk_data.                                                       *)
(***************************************************************************)
Min(a, b) == IF a < b THEN a ELSE b
Max(a, b) == IF a < b THEN b ELSE a

\* dict.get(key, default)
Get(d, key, default) == IF key \in DOMAIN d THEN d[key] ELSE default

\* mutant: the slice takes one record too many
BatchInclusive(its, off) == SubSeq(its, off + 1, Min(off + batch_size + 1, Len(its)))

\* its[off:off+batch_size]
Batch(its, off) == SubSeq(its, off + 1, Min(off + batch_size, Len(its)))

\* preprocess_document as the collection sees it: the record's own metadata
\* dict is the one rewritten
PreprocessItem(item) ==
    IF "metadata" \in DOMAIN item
    THEN [item EXCEPT !["metadata"] = Dict(NormalizeMetadata(@.v))]
    ELSE item

RECURSIVE Digits(_)
Digits(n) ==
    LET d == <<"0","1","2","3","4","5","6","7","8","9">>[(n % 10) + 1]
    IN  IF n < 10 THEN <<d>> ELSE Digits(n \div 10) \o <<d>>

\* str(value) inside the f-string
Format(x) ==
    CASE x.t = "str" -> x.v
      [] x.t = "int" -> Digits(x.v[1])
      [] OTHER -> <<"N","o","n","e">>

\* mutant: the id also takes in a date field
DocIdWithDate(processed_item) ==
    LET metadata == processed_item["metadata"].v
    IN  Format(Get(metadata, "Bentuk Singkat", Str(<<"d","o","c">>))) \o <<"_">>
        \o Format(Get(metadata, "Nomor", Str(<<>>))) \o <<"_">>
        \o Format(Get(metadata, "Tanggal Berlaku", Str(<<>>)))

\* doc_id of a preprocessed record that has metadata
DocId(processed_item) ==
    LET metadata == processed_item["metadata"].v
    IN  Format(Get(metadata, "Bentuk Singkat", Str(<<"d","o","c">>))) \o <<"_">>
        \o Format(Get(metadata, "Nomor", Str(<<>>))) \o <<"_">>
        \o Format(Get(metadata, "Tahun", Str(<<>>)))

\* position in the batch of the first record whose ['metadata'] raises
\* KeyError, 0 if there is none
FirstKeyError(batch) ==
    IF \E j \in 1..Len(batch) : "metadata" \notin DOMAIN batch[j]
    THEN CHOOSE j \in 1..Len(batch) :
            /\ "metadata" \notin DOMAIN batch[j]
            /\ \A h \in 1..(j - 1) : "metadata" \in DOMAIN batch[h]
    ELSE 0

\* the collection after prepare_bulk_data ran on the batch at off: the records
\* reached before the loop ended or raised have been preprocessed
ItemsAfterPrepare(its, off) ==
    LET batch == Batch(its, off)
        stop == IF FirstKeyError(batch) = 0 THEN Len(batch) ELSE FirstKeyError(batch)
    IN  [k \in 1..Len(its) |->
            IF k > off /\ k <= off + stop THEN PreprocessItem(its[k]) ELSE its[k]]

\* the batch at off as prepare_bulk_data leaves it
Prepared(its, off) == Batch(ItemsAfterPrepare(its, off), off)

\* the action line of a record: {"index": {"_index": INDEX_NAME, "_id": doc_id}}
ActionLine(doc_id) == [index |-> [_index |-> "index", _id |-> doc_id]]

\* mutant: the pairs are laid out from the last record of the batch to the first
BulkDataReversed(prepared) ==
    [l \in 1..(2 * Len(prepared)) |->
        IF l % 2 = 1 THEN ActionLine(DocId(prepared[Len(prepared) + 1 - (l + 1) \div 2]))
        ELSE prepared[Len(prepared) + 1 - l \div 2]]

\* the lines of bulk_data for a prepared batch: for each record, in the order
\* of the batch, its action line and then the record itself
BulkData(prepared) ==
    [l \in 1..(2 * Len(prepared)) |->
        IF l % 2 = 1 THEN ActionLine(DocId(prepared[(l + 1) \div 2]))
        ELSE prepared[l \div 2]]

(***************************************************************************)
(* Bulk responses.                                                          *)
(***************************************************************************)
Unknown == <<"u","n","k","n","o","w","n">>
EmptyDict == <<>>

\* one entry of result["items"]
Entry(kind, id) ==
    CASE kind = "ok" -> [a \in {"index"} |-> [_id |-> id, status |-> 201]]
      [] kind = "fail" ->
           [a \in {"index"} |->
              [_id |-> id, status |-> 400,
               error |-> [type |-> "mapper_parsing_exception", reason |-> "failed to parse"]]]
      [] kind = "reject" ->
           [a \in {"index"} |->
              [_id |-> id, status |-> 429,
               error |-> [type |-> "es_rejected_execution_exception", reason |-> "rejected"]]]
      [] kind = "nostatus" -> [a \in {"index"} |-> [_id |-> id]]
      [] OTHER -> [a \in {"create"} |-> [_id |-> id, status |-> 201]]

EntryKinds == {"ok", "fail", "reject", "nostatus", "noindex"}

\* the kinds of the last entries of a response: up to MaxRespFail entries of
\* one failing kind, or one of a few mixes
MixedTails ==
    { <<"reject">>, <<"nostatus">>, <<"noindex">>, <<"fail", "ok">>,
      <<"reject", "fail">>, <<"nostatus", "noindex", "fail">> }

Tails == { [k \in 1..n |-> "fail"] : n \in 0..MaxRespFail } \cup MixedTails

\* result["items"] for a prepared batch: accepted entries for the first
\* documents of the batch, then the tail, which runs past the batch when it is
\* longer than the batch
ResponseItems(prepared, tail) ==
    LET pad == Max(Len(prepared) - Len(tail), 0)
    IN  [j \in 1..(pad + Len(tail)) |->
            Entry(IF j <= pad THEN "ok" ELSE tail[j - pad],
                  IF j <= Len(prepared) THEN DocId(prepared[j]) ELSE <<"x">>)]

\* item.get("index", {}).get("status", 500) >= 400
IsErrorItem(item) == Get(Get(item, "index", EmptyDict), "status", 500) >= 400

\* error_items = [item for item in result["items"] if ... >= 400]
ErrorItems(result_items) == SelectSeq(result_items, IsErrorItem)

\* what the loop over error_items[:3] prints for one error_item
ErrorDetail(error_item) ==
    LET error_details == Get(error_item, "index", EmptyDict)
        error_reason == Get(error_details, "error", EmptyDict)
    IN  [doc_id |-> Get(error_details, "_id", Unknown),
         type |-> Get(error_reason, "type", "unknown"),
         reason |-> Get(error_reason, "reason", "No reason provided")]

\* the detailed error lines of one batch
Reported(error_items) ==
    [k \in 1..Min(Len(error_items), 3) |-> ErrorDetail(error_items[k])]

\* item.get("index", {}).get("error", {}).get("type", "unknown")
ErrorType(item) ==
    Get(Get(Get(item, "index", EmptyDict), "error", EmptyDict), "type", "unknown")

\* mutant: the summary leaves out the errors printed in detail
ErrorTypesOfRest(error_items) ==
    LET rest == 4..Len(error_items)
    IN  [error_type \in { ErrorType(error_items[k]) : k \in rest } |->
            Cardinality({ k \in rest : ErrorType(error_items[k]) = error_type })]

\* error_types after the loop over error_items: occurrences by type
ErrorTypes(error_items) ==
    [error_type \in { ErrorType(error_items[k]) : k \in 1..Len(error_items) } |->
        Cardinality({ k \in 1..Len(error_items) : ErrorType(error_items[k]) = error_type })]

\* mutant: the failures are added instead of subtracted
SuccessItemsAdded(batch, error_items) == Len(batch) + Len(error_items)

\* success_items = len(batch) - len(error_items)
SuccessItems(batch, error_items) == Len(batch) - Len(error_items)

(***************************************************************************)
(* The bulk loop: for i in range(0, total_docs, batch_size).                *)
(***************************************************************************)
total_docs == Len(items)

BulkOutcome(kind, status, batch) ==
    [Outcome("POST /_bulk", kind, status) EXCEPT !.size = Len(batch)]

\* the outcome of a bulk request that was sent with the payload bulk_data
BulkSent(kind, status, batch, bulk_data) ==
    [BulkOutcome(kind, status, batch) EXCEPT !.bulk_data = bulk_data]

\* mutant: the status of the response is not looked at
CountedWhateverStatus(kind, status, errors, batch, error_items) ==
    IF kind = "response"
    THEN IF errors THEN SuccessItems(batch, error_items) ELSE Len(batch)
    ELSE 0

\* what one batch adds to success_count, by the outcome of its request:
\* nothing unless the status is 200 and the body parsed
Counted(kind, status, errors, batch, error_items) ==
    IF kind = "response" /\ status = 200
    THEN IF errors THEN SuccessItems(batch, error_items) ELSE Len(batch)
    ELSE 0

\* mutant: the loop skips a batch
NextOffsetSkipping(off) == off + 2 * batch_size

\* range(0, total_docs, batch_size): the offset after off
NextOffset(off) == off + batch_size

\* the status the engine gave the index action of pair j of a request
WriteStatus(outcome, j) ==
    IF ~outcome.errors THEN 201
    ELSE IF j <= Len(outcome.result_items)
         THEN Get(Get(outcome.result_items[j], "index", EmptyDict), "status", 500)
         ELSE 500

Written(write) == write.status < 400

\* the engine on POST /_bulk: a request answered with 200 had its index
\* actions run in the order of the payload, and those reported accepted wrote
\* their document under their id; a request that failed wrote nothing
EngineBulk(idx, outcome) ==
    IF outcome.kind = "response" /\ outcome.status = 200
    THEN LET writes == [j \in 1..(Len(outcome.bulk_data) \div 2) |->
                          [id |-> outcome.bulk_data[2 * j - 1].index._id,
                           source |-> outcome.bulk_data[2 * j],
                           status |-> WriteStatus(outcome, j)]]
         IN  [idx EXCEPT !.log = @ \o SelectSeq(writes, Written)]
    ELSE idx

\* one iteration of the loop, as the script sees it
BulkRequest ==
    /\ pc = "bulk"
    /\ i < total_docs
    /\ \E batch \in {Batch(items, i)}, prepared \in {Prepared(items, i)} :
          /\ items' = ItemsAfterPrepare(items, i)
          /\ IF FirstKeyError(batch) # 0
             THEN \* prepare_bulk_data raised: caught by except Exception
                  /\ last' = BulkOutcome("keyerror", 0, batch)
                  /\ UNCHANGED <<issued, success_count, clean>>
             ELSE \E bulk_data \in {BulkData(prepared)} :
                  /\ issued' = Append(issued, Request("POST /_bulk", Len(batch)))
                  /\ \/ \E kind \in {"exception", "badbody"} :
                           LET status == IF kind = "badbody" THEN 200 ELSE 0
                           IN  /\ last' = BulkSent(kind, status, batch, bulk_data)
                               /\ success_count' =
                                    success_count + Counted(kind, status, FALSE, batch, <<>>)
                               /\ clean' = FALSE
                     \/ \E status \in BulkStatuses :
                           /\ last' = BulkSent("response", status, batch, bulk_data)
                           /\ success_count' =
                                success_count + Counted("response", status, FALSE, batch, <<>>)
                           /\ clean' = (clean /\ status = 200)
                     \/ \E tail \in Tails :
                           \E result_items \in {ResponseItems(prepared, tail)} :
                           \E error_items \in {ErrorItems(result_items)} :
                               /\ last' = [BulkSent("response", 200, batch, bulk_data) EXCEPT
                                              !.errors = TRUE,
                                              !.result_items = result_items,
                                              !.failures = Len(error_items),
                                              !.reported = Reported(error_items),
                                              !.error_types = ErrorTypes(error_items)]
                               /\ success_count' =
                                    success_count
                                    + Counted("response", 200, TRUE, batch, error_items)
                               /\ clean' = FALSE
    /\ i' = NextOffset(i)
    /\ UNCHANGED <<pc, attempt, batches, exit_code>>
    /\ UNCHANGED normVars

\* one iteration of the loop; what it writes into the index is followed in
\* SpecStore
BulkBatch == BulkRequest /\ UNCHANGED index

\* the range is exhausted: the summary is printed
LoopExit ==
    /\ pc = "bulk"
    /\ i >= total_docs
    /\ pc' = "verify"
    /\ UNCHANGED <<attempt, issued, index, items, i, success_count, last, clean,
                   batches, exit_code>>
    /\ UNCHANGED normVars

(***************************************************************************)
(* The test search; the script then ends.                                   *)
(***************************************************************************)
\* mutant: a search that failed ends the script with status 1
AfterSearchStrict(kind, status) ==
    Exit(IF kind = "response" /\ status = 200 THEN 0 ELSE 1)

\* after the search: the hits are printed, or "Search failed", or the except
\* prints the error; the script then runs off its end
AfterSearch(kind, status) == Exit(0)

Verify ==
    /\ pc = "verify"
    /\ issued' = Append(issued, Request("POST /index/_search", 0))
    /\ \/ \E status \in SearchStatuses :
             /\ last' = Outcome("POST /index/_search", "response", status)
             /\ AfterSearch("response", status)
       \/ \E kind \in {"exception", "badbody"} :
             LET status == IF kind = "badbody" THEN 200 ELSE 0
             IN  /\ last' = Outcome("POST /index/_search", kind, status)
                 /\ AfterSearch(kind, status)
    /\ UNCHANGED <<attempt, index, items, i, success_count, clean, batches>>
    /\ UNCHANGED normVars

IdleNorm ==
    /\ npc = "idle" /\ doc = <<>> /\ store = <<>> /\ doc0 = <<>> /\ processed_doc = <<>>

Init ==
    /\ pc = "connect"
    /\ attempt = 0
    /\ issued = <<>>
    /\ index \in InitialIndexes
    /\ items = <<>>
    /\ i = 0
    /\ success_count = 0
    /\ last = NoResponse
    /\ clean = TRUE
    /\ batches = <<>>
    /\ exit_code = -1
    /\ IdleNorm

Next ==
    \/ Probe
    \/ LoadData
    \/ HeadIndex
    \/ DeleteIndex
    \/ CreateIndex
    \/ BulkBatch
    \/ LoopExit
    \/ Verify

Spec == Init /\ [][Next]_vars

\* the probe is sent with timeout=30 and the sleep is finite: an iteration of
\* the retry loop always completes
FairSpec == Spec /\ WF_vars(Probe)

\* a step of BulkBatch, LoopExit or Verify: the loop moves to its next offset
\* or the script moves on. The script is sequential and every bulk request is
\* sent with timeout=60, so an iteration of the bulk loop always completes and
\* the loop is left when its range is exhausted; the search is sent without a
\* timeout, and is taken to end (with a response or with an exception)
\* because the engine answers or the connection breaks
LoopProgress ==
    /\ pc \in {"bulk", "verify"}
    /\ \E p \in {"bulk", "verify", "exited"}, off \in {i, NextOffset(i)} :
          /\ pc' = p /\ i' = off
          /\ p # pc \/ off # i

FairLoopSpec == Spec /\ WF_<<pc, i>>(LoopProgress)

(***************************************************************************)
(* The bulk loop together with the documents the engine holds, from the     *)
(* state after a successful provisioning, on collections in which several   *)
(* records share a document id.                                             *)
(***************************************************************************)
\* the sets of positions whose records share one Nomor: none, two records of
\* one batch, two records of two batches, three records over two batches
SharedPositions ==
    { {}, {1, 2}, {batch_size, batch_size + 1}, {2, batch_size + 1, batch_size + 2} }

StoreCounts == { 2, batch_size + 1, batch_size + 2 }

\* record k: the records at the positions of shared carry the same Nomor, and
\* every record its own Judul
StoreItemAt(k, shared) ==
    [f \in {"metadata"} |->
        Dict([g \in {"Nomor", "Judul"} |->
                IF g = "Judul" THEN IntVal(k)
                ELSE IF k \in shared
                     THEN IntVal(CHOOSE m \in shared : \A q \in shared : m <= q)
                     ELSE IntVal(k)])]

StoreCollections ==
    { [k \in 1..c[1] |-> StoreItemAt(k, c[2])] :
        c \in { d \in StoreCounts \X SharedPositions : \A q \in d[2] : q <= d[1] } }

BulkBatchStored == BulkRequest /\ index' = EngineBulk(index, last')

StoreInit ==
    /\ pc = "bulk"
    /\ attempt = 0
    /\ issued = <<Request("GET /", 0), Request("HEAD /index", 0), Request("PUT /index", 0)>>
    /\ index = EngineCreate(NoIndex, 200)
    /\ items \in StoreCollections
    /\ i = 0
    /\ success_count = 0
    /\ last = Outcome("PUT /index", "response", 200)
    /\ clean = TRUE
    /\ batches = <<>>
    /\ exit_code = -1
    /\ IdleNorm

StoreNext == BulkBatchStored \/ LoopExit \/ Verify

SpecStore == StoreInit /\ [][StoreNext]_vars

\* the position in the log of the write that holds: each write under an id
\* replaces the document the index held under that id
Holding(log, id) ==
    CHOOSE e \in 1..Len(log) :
        /\ log[e].id = id
        /\ \A later \in (e + 1)..Len(log) : log[later].id # id

\* the ids the index holds a document under
StoredIds(log) == { log[e].id : e \in 1..Len(log) }

(***************************************************************************)
(* The slicing of the bulk loop alone, on collections of every length up    *)
(* to MaxDocs: for i in range(0, total_docs, batch_size): batch = items[..] *)
(***************************************************************************)
SliceBatch ==
    /\ pc = "slice"
    /\ i < total_docs
    /\ batches' = Append(batches, Batch(items, i))
    /\ i' = NextOffset(i)
    /\ UNCHANGED <<pc, attempt, issued, index, items, success_count, last, clean, exit_code>>
    /\ UNCHANGED normVars

SliceDone ==
    /\ pc = "slice"
    /\ i >= total_docs
    /\ pc' = "sliced"
    /\ UNCHANGED <<attempt, issued, index, items, i, success_count, last, clean,
                   batches, exit_code>>
    /\ UNCHANGED normVars

BatchInit ==
    /\ pc = "slice"
    /\ attempt = 0
    /\ issued = <<>>
    /\ index = NoIndex
    /\ \E n \in 0..MaxDocs : items = [k \in 1..n |-> k]
    /\ i = 0
    /\ success_count = 0
    /\ last = NoResponse
    /\ clean = TRUE
    /\ batches = <<>>
    /\ exit_code = -1
    /\ IdleNorm

BatchNext == SliceBatch \/ SliceDone

SpecBatch == BatchInit /\ [][BatchNext]_vars

(***************************************************************************)
(* prepare_bulk_data alone, on a batch of two records whose metadata holds  *)
(* the three fields of the document id, a date field and a title.           *)
(***************************************************************************)
IdFieldValues(f) ==
    CASE f = "Bentuk Singkat" -> { Absent, Str(<<"U","U">>), Str(<<"d","o","c">>) }
      [] f = "Nomor" -> { Absent, IntVal(5), Str(<<"5">>), Str(<<>>) }
      [] f = "Tahun" -> { Absent, IntVal(2001), None }
      [] f = "Tanggal Berlaku" ->
           { Absent, None, Str(Sp \o <<"7">> \o Sp \o Mei \o Sp \o <<"2","0","0","1">>) }
      [] OTHER -> { Absent, Str(<<"a">>) }

IdFields == {"Bentuk Singkat", "Nomor", "Tahun"}
OtherFields == {"Tanggal Berlaku", "Judul"}

\* a record from the values of its metadata fields (Absent: no key), with or
\* without a top-level abstrak
RecordOf(vals, abstrak) ==
    LET metadata == Dict([f \in { g \in DOMAIN vals : vals[g] # Absent } |-> vals[f]])
    IN  IF abstrak
        THEN [k \in {"metadata", "abstrak"} |->
                IF k = "metadata" THEN metadata ELSE Str(<<"a">>)]
        ELSE [k \in {"metadata"} |-> metadata]

FieldValues(fields) ==
    { vals \in [fields -> UNION { IdFieldValues(f) : f \in fields }] :
        \A f \in fields : vals[f] \in IdFieldValues(f) }

\* the first record takes every combination; the second has the other fields
\* all absent or all present
IdRecords == { RecordOf(vals, abstrak) :
                 vals \in FieldValues(IdFields \cup OtherFields), abstrak \in BOOLEAN }
IdRecordsPlain ==
    { RecordOf(vals, FALSE) :
        vals \in { v \in FieldValues(IdFields \cup OtherFields) :
                     \/ \A f \in OtherFields : v[f] = Absent
                     \/ v["Tanggal Berlaku"] = None /\ v["Judul"] # Absent } }

\* bulk_data = prepare_bulk_data(batch) for the batch at offset 0; batches
\* keeps the batch as it was sliced
PrepareBulkData ==
    /\ pc = "prepare"
    /\ batches' = <<Batch(items, i)>>
    /\ items' = ItemsAfterPrepare(items, i)
    /\ last' = [NoResponse EXCEPT !.size = Len(Batch(items, i)),
                                  !.bulk_data = BulkData(Prepared(items, i))]
    /\ pc' = "prepared"
    /\ UNCHANGED <<attempt, issued, index, i, success_count, clean, exit_code>>
    /\ UNCHANGED normVars

IdsInit ==
    /\ pc = "prepare"
    /\ attempt = 0
    /\ issued = <<>>
    /\ index = NoIndex
    /\ \E r1 \in IdRecords, r2 \in IdRecordsPlain : items = <<r1, r2>>
    /\ i = 0
    /\ success_count = 0
    /\ last = NoResponse
    /\ clean = TRUE
    /\ batches = <<>>
    /\ exit_code = -1
    /\ IdleNorm

IdsNext == PrepareBulkData

SpecIds == IdsInit /\ [][IdsNext]_vars

(***************************************************************************)
(* The date layouts of the schema: es_mapping declares the three date       *)
(* fields with format                                                       *)
(*   d MMMM yyyy||dd MMMM yyyy||yyyy-MM-dd||strict_date_optional_time       *)
(***************************************************************************)
Digit == {"0","1","2","3","4","5","6","7","8","9"}
AllDigits(s) == \A k \in 1..Len(s) : s[k] \in Digit
EnglishMonths == { id_month_mapping[k][2] : k \in 1..Len(id_month_mapping) }

\* d MMMM yyyy and dd MMMM yyyy
DayMonthYear(s) ==
    \E d \in {1, 2}, m \in EnglishMonths :
        /\ Len(s) = d + 1 + Len(m) + 1 + 4
        /\ AllDigits(SubSeq(s, 1, d))
        /\ s[d + 1] = " "
        /\ SubSeq(s, d + 2, d + 1 + Len(m)) = m
        /\ s[d + 2 + Len(m)] = " "
        /\ AllDigits(SubSeq(s, d + 3 + Len(m), Len(s)))

\* yyyy-MM-dd, and the date of strict_date_optional_time: yyyy, yyyy-MM, yyyy-MM-dd
IsoDate(s) ==
    /\ Len(s) \in {4, 7, 10}
    /\ AllDigits(SubSeq(s, 1, 4))
    /\ Len(s) >= 7 => s[5] = "-" /\ AllDigits(SubSeq(s, 6, 7))
    /\ Len(s) = 10 => s[8] = "-" /\ AllDigits(SubSeq(s, 9, 10))

\* strict_date_optional_time with its time: yyyy-MM-ddTHH:mm:ss
IsoDateTime(s) ==
    /\ Len(s) = 19
    /\ IsoDate(SubSeq(s, 1, 10))
    /\ s[11] = "T" /\ s[14] = ":" /\ s[17] = ":"
    /\ AllDigits(SubSeq(s, 12, 13) \o SubSeq(s, 15, 16) \o SubSeq(s, 18, 19))

RecognizedDate(s) == DayMonthYear(s) \/ IsoDate(s) \/ IsoDateTime(s)

(***************************************************************************)
(* Properties.                                                              *)
(***************************************************************************)
Sent(req) == { k \in 1..Len(issued) : issued[k].req = req }

\* C1: preprocess_document never mutates its input: after the call the input
\* record, the contents of its metadata mapping included, equals what it was
\* before the call.
C1_InputNeverMutated ==
    npc = "returned" => View(doc, store) = doc0

\* C2: after preprocess_document every one of the three date fields that
\* survives in the output metadata holds a string one of the schema's date
\* layouts accepts.
C2_SurvivingDatesRecognized ==
    (npc = "returned" /\ "metadata" \in DOMAIN processed_doc) =>
        LET metadata == store[processed_doc["metadata"].v[1]]
        IN  \A k \in 1..Len(date_fields) :
                date_fields[k] \in DOMAIN metadata =>
                    /\ IsStr(metadata[date_fields[k]])
                    /\ RecognizedDate(metadata[date_fields[k]].v)

\* C3: whenever the script is past provisioning (create returned 200), the
\* index exists with the script's schema and holds no document from before
\* the run, whatever the engine held and whatever the existence check said.
C3_ProvisionedIndexIsFresh ==
    (pc \in {"bulk", "verify"} \/ (pc = "exited" /\ exit_code = 0)) =>
        /\ index.exists
        /\ index.schema = "es_mapping"
        /\ index.prior = {}

\* a run that found the index, deleted it and created it anew
C3_Witness ==
    /\ pc = "bulk"
    /\ Sent("DELETE /index") # {}
    /\ last.req = "PUT /index" /\ last.status = 200
    /\ index.exists /\ index.prior = {}

\* C4: a delete answered outside {200, 404} or a create not answered 200 ends
\* the process with a non-zero exit code, with no bulk and no search request
\* sent in the run; a delete answered 404 is tolerated and the create request
\* follows every delete that was tolerated.
C4_ProvisioningFailed ==
    \/ /\ last.req = "DELETE /index" /\ last.kind = "response"
       /\ last.status \notin {200, 404}
    \/ /\ last.req = "PUT /index" /\ last.kind = "response"
       /\ last.status # 200

C4_ProvisioningFailureIsFatal ==
    /\ C4_ProvisioningFailed =>
          /\ pc = "exited" /\ exit_code # 0 /\ exit_code # -1
          /\ Sent("POST /_bulk") = {} /\ Sent("POST /index/_search") = {}
          /\ ~ENABLED Next
    /\ (last.req = "DELETE /index" /\ last.kind = "response" /\ last.status = 404) =>
          pc = "create" /\ exit_code = -1 /\ ENABLED CreateIndex
    /\ \A k \in Sent("DELETE /index") :
          k < Len(issued) => issued[k + 1].req = "PUT /index"

\* a delete answered 500 ended the run
C4_Witness ==
    /\ last.req = "DELETE /index" /\ last.kind = "response" /\ last.status = 500
    /\ pc = "exited" /\ exit_code = 1

\* C5: the handshake sends at most max_retries = 5 probes and stops at the
\* first successful one; if all 5 fail the process exits non-zero having sent
\* nothing but probes; the handshake always terminates.
C5_State ==
    /\ Cardinality(Sent("GET /")) <= max_retries
    /\ \A k \in Sent("GET /") : \A h \in 1..k : issued[h].req = "GET /"
    /\ pc = "connect" => attempt < max_retries /\ Len(issued) = attempt
    /\ (last.req = "GET /" /\ last.kind = "response" /\ last.status = 200) =>
          pc # "connect" /\ Len(issued) = attempt + 1
    /\ pc # "connect" => Cardinality(Sent("GET /")) = attempt + 1
    /\ (last.req = "GET /" /\ ~(last.kind = "response" /\ last.status = 200)) =>
          \/ pc = "connect"
          \/ /\ pc = "exited" /\ exit_code # 0 /\ exit_code # -1
             /\ Len(issued) = max_retries
             /\ Sent("GET /") = 1..max_retries

C5_HandshakeBoundedAndTerminates == []C5_State /\ <>(pc # "connect")

\* five failed probes ended the run
C5_Witness ==
    /\ pc = "exited" /\ exit_code = 1
    /\ last.req = "GET /" /\ last.kind = "exception"
    /\ Len(issued) = max_retries

\* C6: a bulk request that returns a non-200 status or raises leaves
\* success_count unchanged and the loop running, and the loop submits the next
\* batch: every step from a loop state with records left sends that batch.
C6_FailedBulk(l) ==
    /\ l.req = "POST /_bulk"
    /\ l.kind = "exception" \/ (l.kind = "response" /\ l.status # 200)

C6_Step ==
    /\ (pc = "bulk" /\ i' # i /\ C6_FailedBulk(last')) =>
          /\ success_count' = success_count
          /\ pc' = "bulk" /\ exit_code' = -1
          /\ i' = i + batch_size
    /\ (pc = "bulk" /\ i < Len(items)
          /\ \A k \in (i + 1)..Min(i + batch_size, Len(items)) : "metadata" \in DOMAIN items[k]) =>
          /\ Len(issued') = Len(issued) + 1
          /\ issued'[Len(issued')] =
                Request("POST /_bulk", Min(i + batch_size, Len(items)) - i)

C6_BatchFailureNeverAborts == [][C6_Step]_vars

\* the second batch failed after the first was counted, and a third is left
C6_Witness ==
    /\ pc = "bulk" /\ C6_FailedBulk(last)
    /\ i = 2 * batch_size /\ success_count = batch_size
    /\ Len(items) > i

\* C7: success_count never exceeds total_docs, and never the number of
\* records in the batches handled so far.
C7_SuccessCountBounded ==
    /\ success_count <= Len(items)
    /\ success_count <= Min(i, Len(items))

\* every record of three batches was counted, the last batch under an errors
\* flag without failing entries
C7_Witness ==
    /\ pc = "verify" /\ Len(items) > 2 * batch_size
    /\ success_count = Len(items)
    /\ last.errors

\* C8: if every bulk request returned 200 with the errors flag unset and none
\* raised, the final success_count equals total_docs, whatever the records.
C8_CleanRunCountsEverything ==
    (pc = "verify" /\ clean) => success_count = Len(items)

\* C9 as stated: on a 200 response success_count grows by the batch size if
\* the errors flag is unset, else by the batch size minus the number of
\* entries whose status is >= 400, each of which is reported with its id.
C9_HasStatus(e) == "index" \in DOMAIN e /\ "status" \in DOMAIN e["index"]

\* a step of the bulk loop that got a 200 response with a usable body
C9_Answered == pc = "bulk" /\ i' # i /\ last'.kind = "response" /\ last'.status = 200

C9_StatusFails(e) == C9_HasStatus(e) /\ e["index"].status >= 400

C9_IdOf(e) ==
    IF "index" \in DOMAIN e /\ "_id" \in DOMAIN e["index"] THEN e["index"]._id ELSE Unknown

C9_Fails(e) == ~(C9_HasStatus(e) /\ e["index"].status < 400)

RECURSIVE Concat(_)
Concat(ss) == IF ss = <<>> THEN <<>> ELSE Head(ss) \o Concat(Tail(ss))

C10_BatchingExhaustive ==
    /\ Concat(batches) = SubSeq(items, 1, Min(i, Len(items)))
    /\ \A k \in 1..Len(batches) :
          \/ Len(batches[k]) = batch_size
          \/ /\ k = Len(batches) /\ i >= Len(items)
             /\ Len(batches[k]) \in 1..batch_size
    /\ pc = "sliced" =>
          /\ Concat(batches) = items
          /\ Len(batches) = (Len(items) + batch_size - 1) \div batch_size

\* 120 records were cut into 50, 50 and 20
C10_Witness ==
    /\ pc = "sliced" /\ Len(items) = 120
    /\ Len(batches) = 3 /\ Len(batches[3]) = 20

\* C11: every batch is submitted exactly once and in input order: the bulk
\* requests issued so far are one per batch handled so far, carrying the sizes
\* of the batches in order (so ceil(n/50) of them once the loop has ended),
\* and the payload of a request holds the action/document pairs of its batch
\* in the input order of the records.
C11_IsBulk(r) == r.req = "POST /_bulk"

C11_Handled == (Min(i, Len(items)) + batch_size - 1) \div batch_size

C11_BatchesSubmittedInOrder ==
    (pc \in {"bulk", "verify"} \/ (pc = "exited" /\ exit_code = 0)) =>
        LET sent == SelectSeq(issued, C11_IsBulk)
        IN  /\ Len(sent) = C11_Handled
            /\ \A k \in 1..Len(sent) :
                  sent[k].docs = Min(batch_size, Len(items) - (k - 1) * batch_size)
            /\ (pc = "bulk" /\ i > 0) =>
                  /\ Len(last.bulk_data) = 2 * last.size
                  /\ \A j \in 1..last.size :
                        /\ last.bulk_data[2 * j - 1] =
                              ActionLine(DocId(items[i - batch_size + j]))
                        /\ last.bulk_data[2 * j] = items[i - batch_size + j]

\* C12: the document id is a function of exactly the three metadata fields
\* Bentuk Singkat, Nomor and Tahun: two records of a batch that agree on them
\* (same keys present, same values) get the same id in the payload whatever
\* their other fields hold, and the id computed on the normalized record is
\* the id of the record as it was before normalization.
C12_Agree(r1, r2) ==
    \A f \in IdFields :
        /\ (f \in DOMAIN r1["metadata"].v) = (f \in DOMAIN r2["metadata"].v)
        /\ f \in DOMAIN r1["metadata"].v => r1["metadata"].v[f] = r2["metadata"].v[f]

C12_IdInPayload(j) == last.bulk_data[2 * j - 1].index._id

C12_IdFromThreeFields ==
    pc = "prepared" =>
        /\ \A a, b \in 1..Len(batches[1]) :
              C12_Agree(batches[1][a], batches[1][b]) => C12_IdInPayload(a) = C12_IdInPayload(b)
        /\ \A a \in 1..Len(batches[1]) : C12_IdInPayload(a) = DocId(batches[1][a])

\* two records that agree on the three fields only, one of them with a date
\* that normalization rewrote, got the id made of the default for the absent
\* Bentuk Singkat, the number and the empty default for the absent Tahun
C12_Witness ==
    /\ pc = "prepared"
    /\ C12_Agree(batches[1][1], batches[1][2])
    /\ batches[1][1] # batches[1][2]
    /\ items[1] # batches[1][1]
    /\ "abstrak" \in DOMAIN batches[1][1]
    /\ C12_IdInPayload(1) = <<"d","o","c","_","5","_">>
    /\ C12_IdInPayload(2) = <<"d","o","c","_","5","_">>

\* C13: colliding document ids are last-write-wins in input order: of the
\* records whose index action was accepted under some id, the index holds
\* under that id the one that comes last in the input collection, whether
\* they were sent in one batch or in several.
C13_Position(source) == CHOOSE k \in 1..Len(items) : items[k] = source

C13_LastWriteWins ==
    \A e \in 1..Len(index.log) :
        C13_Position(index.log[Holding(index.log, index.log[e].id)].source)
            >= C13_Position(index.log[e].source)

\* records 2, 51 and 52 share an id and all 52 records were accepted: the
\* index holds record 52 under that id and 50 documents in all, fewer than
\* success_count
C13_Witness ==
    /\ pc = "verify" /\ Len(items) = batch_size + 2
    /\ DocId(items[2]) = DocId(items[batch_size + 2])
    /\ DocId(items[2]) = DocId(items[batch_size + 1])
    /\ success_count = batch_size + 2
    /\ Len(index.log) = batch_size + 2
    /\ index.log[Holding(index.log, DocId(items[2]))].source = items[batch_size + 2]
    /\ Cardinality(StoredIds(index.log)) = batch_size
    /\ Cardinality(StoredIds(index.log)) < success_count

\* C14: once provisioning has succeeded the script always reaches the end of
\* the bulk loop, sends the search exactly once, after the last batch and as
\* its last request, and exits with status 0: no outcome of a bulk request or
\* of the search makes it exit otherwise.
C14_Loaded == pc \in {"bulk", "verify"}

C14_Step == C14_Loaded => (C14_Loaded' \/ (pc' = "exited" /\ exit_code' = 0))

C14_State ==
    /\ C14_Loaded => Sent("POST /index/_search") = {}
    /\ pc = "verify" => i >= Len(items)
    /\ (pc = "exited" /\ exit_code = 0) =>
          /\ Sent("POST /index/_search") = {Len(issued)}
          /\ i >= Len(items)

C14_LoadAlwaysCompletes ==
    /\ [][C14_Step]_vars
    /\ []C14_State
    /\ (pc = "bulk") ~> (pc = "exited" /\ exit_code = 0)

\* the script exited with 0 although nothing of three batches was counted
\* and the search raised
C14_Witness ==
    /\ pc = "exited" /\ exit_code = 0
    /\ Len(items) > 2 * batch_size /\ success_count = 0
    /\ last.req = "POST /index/_search" /\ last.kind = "exception"

\* C15: a date field that held a non-empty string holds, after
\* preprocess_document, that string with the surrounding whitespace trimmed
\* and every occurrence of an Indonesian month name replaced by the English
\* name in one pass from left to right, every other character kept in place:
\* the month-by-month replace of the code gives what this one simultaneous
\* substitution gives.
C15_Trimmed(s) ==
    LET inked == { p \in 1..Len(s) : s[p] \notin Whitespace }
    IN  IF inked = {} THEN <<>>
        ELSE SubSeq(s, CHOOSE p \in inked : \A q \in inked : p <= q,
                       CHOOSE p \in inked : \A q \in inked : p >= q)

C15_MonthAt(s, p) ==
    { k \in 1..Len(id_month_mapping) :
        /\ p + Len(id_month_mapping[k][1]) - 1 <= Len(s)
        /\ SubSeq(s, p, p + Len(id_month_mapping[k][1]) - 1) = id_month_mapping[k][1] }

RECURSIVE C15_Substituted(_, _)
C15_Substituted(s, p) ==
    IF p > Len(s) THEN <<>>
    ELSE IF C15_MonthAt(s, p) = {} THEN <<s[p]>> \o C15_Substituted(s, p + 1)
    ELSE LET k == CHOOSE m \in C15_MonthAt(s, p) : TRUE
         IN  id_month_mapping[k][2]
             \o C15_Substituted(s, p + Len(id_month_mapping[k][1]))

C15_ReplaceIsSubstitution ==
    (npc = "returned" /\ "metadata" \in DOMAIN doc0) =>
        \A f \in DOMAIN doc0["metadata"].v :
            \A before \in {doc0["metadata"].v[f]} :
                (f \in {"Tanggal Penetapan", "Tanggal Pengundangan", "Tanggal Berlaku"}
                 /\ IsStr(before) /\ before.v # <<>>) =>
                    LET metadata == store[processed_doc["metadata"].v[1]]
                    IN  /\ f \in DOMAIN metadata
                        /\ \E trimmed \in {C15_Trimmed(before.v)} :
                              metadata[f] = Str(C15_Substituted(trimmed, 1))

\* " 17 Agustus 1945 " became "17 August 1945"
C15_Witness ==
    /\ npc = "returned" /\ "metadata" \in DOMAIN doc0
    /\ "Tanggal Berlaku" \in DOMAIN doc0["metadata"].v
    /\ doc0["metadata"].v["Tanggal Berlaku"] =
          Str(Sp \o <<"1","7">> \o Sp \o Agustus \o Sp \o <<"1","9","4","5">> \o Sp)
    /\ store[processed_doc["metadata"].v[1]]["Tanggal Berlaku"] =
          Str(<<"1","7">> \o Sp \o August \o Sp \o <<"1","9","4","5">>)

\* C16: preprocess_document only removes or rewrites the three date fields:
\* the returned record has the top-level fields of the input with the same
\* values, its metadata has no key the input's metadata lacked and the same
\* value under every key that is not a date field, a date field absent
\* before is absent after, a date field that held None, '' or a non-string
\* is absent after, and a record without metadata is returned as it was.
C16_DateFields == { date_fields[k] : k \in 1..Len(date_fields) }

C16_OnlyDateFieldsTouched ==
    npc = "returned" =>
        LET returned == View(processed_doc, store)
        IN  /\ DOMAIN returned = DOMAIN doc0
            /\ \A k \in DOMAIN doc0 \ {"metadata"} : returned[k] = doc0[k]
            /\ "metadata" \notin DOMAIN doc0 => returned = doc0
            /\ "metadata" \in DOMAIN doc0 =>
                  LET before == doc0["metadata"].v
                      after == returned["metadata"].v
                  IN  /\ DOMAIN after \subseteq DOMAIN before
                      /\ DOMAIN before \ C16_DateFields \subseteq DOMAIN after
                      /\ \A f \in DOMAIN after \ C16_DateFields : after[f] = before[f]
                      /\ \A f \in C16_DateFields \cap DOMAIN before :
                            (~IsStr(before[f]) \/ before[f] = Str(<<>>)) =>
                                f \notin DOMAIN after

\* of the three date fields one held a number and is gone, one held a date
\* and was rewritten, one was absent and still is; Nomor is as it was
C16_Witness ==
    /\ npc = "returned" /\ "metadata" \in DOMAIN doc0
    /\ LET before == doc0["metadata"].v
           after == store[processed_doc["metadata"].v[1]]
       IN  /\ DOMAIN before = {"Nomor", "Tanggal Penetapan", "Tanggal Pengundangan"}
           /\ before["Tanggal Penetapan"] = Int7
           /\ DOMAIN after = {"Nomor", "Tanggal Pengundangan"}
           /\ after["Tanggal Pengundangan"] # before["Tanggal Pengundangan"]
           /\ after["Nomor"] = before["Nomor"]

\* C17 as stated: when a 200 response with the errors flag set holds k failed
\* entries, min(k, 3) detailed records are reported, for the first failed
\* entries in response order, each with id, category and reason, and the
\* count by category covers the k - min(k, 3) failures not reported in detail.
C17_Failed(e) == ~("index" \in DOMAIN e /\ "status" \in DOMAIN e["index"] /\ e["index"].status < 400)

C17_Error(e) ==
    IF "index" \in DOMAIN e /\ "error" \in DOMAIN e["index"] THEN e["index"].error ELSE EmptyDict

C17_Category(e) == IF "type" \in DOMAIN C17_Error(e) THEN C17_Error(e).type ELSE "unknown"

C17_Reason(e) ==
    IF "reason" \in DOMAIN C17_Error(e) THEN C17_Error(e).reason ELSE "No reason provided"

C17_Answered ==
    last.req = "POST /_bulk" /\ last.kind = "response" /\ last.status = 200 /\ last.errors

C17_Detailed(failing) ==
    /\ Len(last.reported) = Min(Len(failing), 3)
    /\ \A r \in 1..Len(last.reported) :
          /\ last.reported[r].doc_id = C9_IdOf(failing[r])
          /\ last.reported[r].type = C17_Category(failing[r])
          /\ last.reported[r].reason = C17_Reason(failing[r])

\* the count by category is that of the failing entries at positions in among
C17_Summary(failing, among) ==
    /\ DOMAIN last.error_types = { C17_Category(failing[k]) : k \in among }
    /\ \A c \in DOMAIN last.error_types :
          last.error_types[c] = Cardinality({ k \in among : C17_Category(failing[k]) = c })

C18_NoMetadataInBatch ==
    /\ pc = "bulk" /\ i < Len(items)
    /\ \E j \in (i + 1)..Min(i + batch_size, Len(items)) : "metadata" \notin DOMAIN items[j]

C18_Step ==
    C18_NoMetadataInBatch =>
        /\ issued' = issued
        /\ index' = index
        /\ success_count' = success_count
        /\ pc' = "bulk" /\ exit_code' = exit_code
        /\ i' = i + batch_size

C18_BatchWithoutMetadataSkipped == [][C18_Step]_vars

\* the first batch held a record without metadata at its end and was not
\* posted; the second batch was posted and counted
C18_Witness ==
    /\ pc = "bulk" /\ i = 2 * batch_size /\ Len(items) > batch_size
    /\ "metadata" \notin DOMAIN items[batch_size]
    /\ Cardinality(Sent("POST /_bulk")) = 1
    /\ success_count = Min(Len(items), 2 * batch_size) - batch_size
    /\ success_count > 0

\* C19: success_count never decreases and is never negative: every iteration
\* of the bulk loop adds a value between 0 and the size of its batch,
\* whatever the 200 response holds.
C19_Step ==
    /\ success_count' >= success_count
    /\ success_count' >= 0
    /\ (pc = "bulk" /\ i' # i) => success_count' - success_count <= last'.size

C19_SuccessCountMonotone == [][C19_Step]_vars

\* C20: normalization is idempotent: preprocess_document applied to a record
\* it returned gives back a record equal to that record, no date value
\* rewritten or dropped by the second pass.
C20_Idempotent ==
    npc = "returned again" => View(processed_doc, store) = doc0

====
